---- MODULE Spec2Model ----
(***************************************************************************)
(* Model of lib/cretonne/src/entity_list.rs: ListPool<T> (a flat data      *)
(* vector plus per-size-class free-list heads) and EntityList<T> (a 32-bit *)
(* index into the pool's data vector).                                     *)
(*                                                                         *)
(* Rust vectors are 0-based, TLA+ sequences are 1-based: the element the   *)
(* code calls data[k] is data[k + 1] here, free[c] is free[c + 1].         *)
(* A panic (a failed assert!, an out-of-range index or slice) is recorded  *)
(* in the panic field of the value an operation returns, together with the *)
(* state the operation had reached when it panicked.                       *)
(***************************************************************************)
EXTENDS Integers, Sequences, FiniteSets, TLC

\* ---------------------------------------------------------------- bounds
\* The EntityList values sharing the one pool.
Lists == {1, 2}
\* The handles Inst::new(1), Inst::new(2) of the tests.
Elems == {1, 2}
\* Three ways of using the pool are explored (see Scenarios).
\* Longest list built when list 1 is used alone with the handles Elems, and
\* longest list 1 built when both lists are used.
MaxLen == 5
\* Longest list built when list 1 is used alone with one handle.
DeepLen == 16
\* Longest list 2 built when both lists are used.
ShortLen == 1
\* Longest argument of extend.
MaxExtend == 2
\* The block allocator alone: the largest size class asked for and the most
\* blocks held at a time.
MaxClass == 1
MaxHeld == 3
\* The most blocks the allocator is asked to carve out of data.
MaxBlocks == 4
\* The size-class functions alone: they are applied to every length up to
\* MaxCheckedLen and to the lengths around each power of two up to 2^20.
MaxCheckedLen == 300
StaleLen == 4
StepLen == 5
ForeignLen == 2
MaxData == 12
\* how far past the end of a list the out-of-range removes go
MaxOverrun == 2
\* the longest the first of two lists sharing a pool grows
SharedLen == 4

\* ------------------------------------------------------- machine integers
\* Every index, length and handle of the model stays far below 2^31, so the
\* u32 and usize values of the code are the naturals themselves; the one
\* place where the code wraps on purpose is idx.wrapping_sub(1) in len_of.
\* usize::MAX is represented by the largest integer of the model checker:
\* like usize::MAX it is beyond the length of any vector.
UsizeMax == 2147483647

\* Option<usize>::None
None == -1
BigHandle == 7

\* T::new(index): an entity reference holds its index as a u32.
EntityNew(n) == n
\* t.index(): the index as a usize.
EntityIndex(t) == t

\* x as u32
AsU32(x) == x

\* Mutant of wrapping_sub1: idx.saturating_sub(1), which reads slot 0 for
\* the empty list.
wrapping_sub1_saturating(idx) == IF idx = 0 THEN 0 ELSE idx - 1

\* idx.wrapping_sub(1)
wrapping_sub1(idx) == IF idx = 0 THEN UsizeMax ELSE idx - 1

\* (x as u32).leading_zeros(): the number of zero bits above the highest set
\* bit of a 32-bit word, 32 for the word 0.
RECURSIVE BitLength(_)
BitLength(x) == IF x = 0 THEN 0 ELSE 1 + BitLength(x \div 2)
leading_zeros(x) == 32 - BitLength(x)

\* x | 3 on a 32-bit word: set the two lowest bits.
Or3(x) == (x \div 4) * 4 + 3

RECURSIVE Pow2(_)
Pow2(n) == IF n = 0 THEN 1 ELSE 2 * Pow2(n - 1)

\* usize::is_power_of_two
RECURSIVE is_power_of_two(_)
is_power_of_two(x) ==
    IF x = 0 THEN FALSE
    ELSE IF x = 1 THEN TRUE
    ELSE IF x % 2 = 1 THEN FALSE
    ELSE is_power_of_two(x \div 2)

\* ---------------------------------------------------------- size classes
\* 4 << sclass on a usize
sclass_size(sclass) == 4 * Pow2(sclass)

\* Mutant of sclass_for_length: 31 in place of 30.
sclass_for_length_31(len) == 31 - leading_zeros(Or3(AsU32(len)))

\* 30 - (len as u32 | 3).leading_zeros() as SizeClass
sclass_for_length(len) == 30 - leading_zeros(Or3(AsU32(len)))

\* Mutant of is_sclass_min_length: len > 4 in place of len > 3.
is_sclass_min_length_off(len) == len > 4 /\ is_power_of_two(len)

\* Mutant of is_sclass_min_length: the test len > 3 is left out.
is_sclass_min_length_no_floor(len) == is_power_of_two(len)

\* len > 3 && len.is_power_of_two()
is_sclass_min_length(len) == len > 3 /\ is_power_of_two(len)

\* ------------------------------------------------------------- vectors
\* k is a valid index of the vector v (the bounds check of v[k] and v.get(k))
InRange(v, k) == k >= 0 /\ k < Len(v)
\* v[k]
At(v, k) == v[k + 1]
\* v[k] = x
Put(v, k, x) == [v EXCEPT ![k + 1] = x]
\* v.resize(Len(v) + n, x)
Grow(v, n, x) == v \o [i \in 1..n |-> x]

\* ----------------------------------------------------------------- pool
\* A pool value: the two vectors of ListPool, the record cls of the size
\* class each block was last handed out under by alloc (a set of
\* <<block, sclass>> pairs, history only: the code does not store it),
\* whether a panic has happened, the value last returned, and the record
\* re of the last call of realloc (history only).
\* re of a pool value on which realloc was not called
NoRealloc ==
    [done |-> FALSE, block |-> 0, from |-> 0, to |-> 0, n |-> 0, new |-> 0,
     asserted |-> TRUE]

MkPool(d, f, c) ==
    [data |-> d, free |-> f, cls |-> c, panic |-> FALSE, ret |-> 0,
     re |-> NoRealloc]

\* re of a call realloc(block, from, to, n): asserted tells that both
\* assertions held, new is the block returned
Realloc(block, from, to, n, asserted, new) ==
    [done |-> TRUE, block |-> block, from |-> from, to |-> to, n |-> n,
     new |-> new, asserted |-> asserted]

\* ListPool::new
pool_new == MkPool(<< >>, << >>, {})

\* a panic: the state stays as it is, nothing after it runs
Panic(p) == [p EXCEPT !.panic = TRUE]

\* self.data[k] = x, which panics when k is out of range
write(p, k, x) ==
    IF p.panic THEN p
    ELSE IF InRange(p.data, k) THEN [p EXCEPT !.data = Put(p.data, k, x)]
    ELSE Panic(p)

\* Mutant of pool_clear: data is not truncated.
pool_clear_keeps_data(p) == [p EXCEPT !.free = << >>, !.cls = {}]

\* Mutant of pool_clear: the free-list heads are not truncated.
pool_clear_keeps_free(p) == [p EXCEPT !.data = << >>, !.cls = {}]

\* ListPool::clear
pool_clear(p) == [p EXCEPT !.data = << >>, !.free = << >>, !.cls = {}]

\* ListPool::len_of, on the data vector and the list's index
len_of(d, idx) ==
    LET k == wrapping_sub1(idx)
    IN  IF InRange(d, k) THEN EntityIndex(At(d, k)) ELSE None

\* the class record after alloc hands out block under sclass
Handed(c, block, sclass) == {q \in c : q[1] # block} \cup {<<block, sclass>>}

\* Mutant of alloc: the popped head itself is returned, not head - 1.
alloc_returns_head(p, sclass) ==
    IF p.panic THEN p
    ELSE IF sclass < Len(p.free) /\ At(p.free, sclass) > 0
    THEN LET head == At(p.free, sclass)
         IN  IF ~InRange(p.data, head) THEN Panic(p)
             ELSE [p EXCEPT !.free = Put(p.free, sclass, EntityIndex(At(p.data, head))),
                            !.cls = Handed(p.cls, head, sclass),
                            !.ret = head]
    ELSE LET offset == Len(p.data)
         IN  [p EXCEPT !.data = Grow(p.data, sclass_size(sclass), EntityNew(0)),
                       !.cls = Handed(p.cls, offset, sclass),
                       !.ret = offset]

\* Mutant of alloc: the block at the head of the free list is handed out
\* and stays on the free list.
alloc_no_pop(p, sclass) ==
    IF p.panic THEN p
    ELSE IF sclass < Len(p.free) /\ At(p.free, sclass) > 0
    THEN LET head == At(p.free, sclass)
         IN  IF ~InRange(p.data, head) THEN Panic(p)
             ELSE [p EXCEPT !.cls = Handed(p.cls, head - 1, sclass),
                            !.ret = head - 1]
    ELSE LET offset == Len(p.data)
         IN  [p EXCEPT !.data = Grow(p.data, sclass_size(sclass), EntityNew(0)),
                       !.cls = Handed(p.cls, offset, sclass),
                       !.ret = offset]

\* ListPool::alloc; the block is returned in ret
alloc(p, sclass) ==
    IF p.panic THEN p
    ELSE IF sclass < Len(p.free) /\ At(p.free, sclass) > 0
    THEN LET head == At(p.free, sclass)
         IN  IF ~InRange(p.data, head) THEN Panic(p)
             ELSE [p EXCEPT !.free = Put(p.free, sclass, EntityIndex(At(p.data, head))),
                            !.cls = Handed(p.cls, head - 1, sclass),
                            !.ret = head - 1]
    ELSE LET offset == Len(p.data)
         IN  [p EXCEPT !.data = Grow(p.data, sclass_size(sclass), EntityNew(0)),
                       !.cls = Handed(p.cls, offset, sclass),
                       !.ret = offset]

\* Mutant of pool_free: the head stores the block, not block + 1.
pool_free_raw_head(p, block, sclass) ==
    IF p.panic THEN p
    ELSE LET f  == IF Len(p.free) <= sclass
                   THEN Grow(p.free, sclass + 1 - Len(p.free), 0)
                   ELSE p.free
             p0 == [p EXCEPT !.free = f]
             p1 == write(p0, block, EntityNew(0))
             p2 == write(p1, block + 1, EntityNew(At(f, sclass)))
         IN  IF p2.panic THEN p2
             ELSE [p2 EXCEPT !.free = Put(f, sclass, block)]

\* Mutant of pool_free: the freed block's link is 0, not the old head.
pool_free_drops_link(p, block, sclass) ==
    IF p.panic THEN p
    ELSE LET f  == IF Len(p.free) <= sclass
                   THEN Grow(p.free, sclass + 1 - Len(p.free), 0)
                   ELSE p.free
             p0 == [p EXCEPT !.free = f]
             p1 == write(p0, block, EntityNew(0))
             p2 == write(p1, block + 1, EntityNew(0))
         IN  IF p2.panic THEN p2
             ELSE [p2 EXCEPT !.free = Put(f, sclass, block + 1)]

\* Mutant of pool_free: the block's length slot is left as it is.
pool_free_keeps_length(p, block, sclass) ==
    IF p.panic THEN p
    ELSE LET f  == IF Len(p.free) <= sclass
                   THEN Grow(p.free, sclass + 1 - Len(p.free), 0)
                   ELSE p.free
             p0 == [p EXCEPT !.free = f]
             p2 == write(p0, block + 1, EntityNew(At(f, sclass)))
         IN  IF p2.panic THEN p2
             ELSE [p2 EXCEPT !.free = Put(f, sclass, block + 1)]

\* ListPool::free
pool_free(p, block, sclass) ==
    IF p.panic THEN p
    ELSE LET f  == IF Len(p.free) <= sclass
                   THEN Grow(p.free, sclass + 1 - Len(p.free), 0)
                   ELSE p.free
             p0 == [p EXCEPT !.free = f]
             p1 == write(p0, block, EntityNew(0))
             p2 == write(p1, block + 1, EntityNew(At(f, sclass)))
         IN  IF p2.panic THEN p2
             ELSE [p2 EXCEPT !.free = Put(f, sclass, block + 1)]

\* ListPool::mut_slices: the two slices, each as the half-open range
\* <<first, end>> of data it covers; split_at_mut(mid) panics for
\* mid > len.
mut_slices(d, block0, block1) ==
    IF block0 < block1
    THEN [panic |-> block1 > Len(d), old |-> <<block0, block1>>,
          new |-> <<block1, Len(d)>>]
    ELSE [panic |-> block0 > Len(d), old |-> <<block0, Len(d)>>,
          new |-> <<block1, block0>>]

\* Mutant of copy_from_slice: one element too few is copied.
copy_from_slice_short(p, old, new, n) ==
    IF n > new[2] - new[1] \/ n > old[2] - old[1] THEN Panic(p)
    ELSE [p EXCEPT !.data =
            [k \in 1..Len(p.data) |->
                IF k - 1 >= new[1] /\ k - 1 < new[1] + n - 1
                THEN At(p.data, old[1] + (k - 1 - new[1]))
                ELSE p.data[k]]]

\* (&mut new[0..n]).copy_from_slice(&old[0..n]): either slicing panics when
\* the slice is shorter than n
copy_from_slice(p, old, new, n) ==
    IF n > new[2] - new[1] \/ n > old[2] - old[1] THEN Panic(p)
    ELSE [p EXCEPT !.data =
            [k \in 1..Len(p.data) |->
                IF k - 1 >= new[1] /\ k - 1 < new[1] + n
                THEN At(p.data, old[1] + (k - 1 - new[1]))
                ELSE p.data[k]]]

\* Mutant of realloc: the new block is allocated under from_sclass.
realloc_same_class(p, block, from_sclass, to_sclass, elems_to_copy) ==
    IF p.panic THEN p
    ELSE IF elems_to_copy > sclass_size(from_sclass) THEN Panic(p)
    ELSE IF elems_to_copy > sclass_size(to_sclass) THEN Panic(p)
    ELSE LET a == alloc(p, from_sclass)
             new_block == a.ret
             s == mut_slices(a.data, block, new_block)
             c == IF a.panic \/ elems_to_copy = 0 THEN a
                  ELSE IF s.panic THEN Panic(a)
                  ELSE copy_from_slice(a, s.old, s.new, elems_to_copy)
             f == pool_free(c, block, from_sclass)
         IN  [f EXCEPT !.ret = new_block]

\* Mutant of realloc: the old block is not freed.
realloc_keeps_old(p, block, from_sclass, to_sclass, elems_to_copy) ==
    IF p.panic THEN p
    ELSE IF elems_to_copy > sclass_size(from_sclass)
            \/ elems_to_copy > sclass_size(to_sclass)
    THEN [Panic(p) EXCEPT !.re = Realloc(block, from_sclass, to_sclass,
                                         elems_to_copy, FALSE, None)]
    ELSE LET a == alloc(p, to_sclass)
             new_block == a.ret
             s == mut_slices(a.data, block, new_block)
             c == IF a.panic \/ elems_to_copy = 0 THEN a
                  ELSE IF s.panic THEN Panic(a)
                  ELSE copy_from_slice(a, s.old, s.new, elems_to_copy)
         IN  [c EXCEPT !.ret = new_block,
                       !.re = Realloc(block, from_sclass, to_sclass,
                                      elems_to_copy, TRUE, new_block)]

\* ListPool::realloc; the new block is returned in ret
realloc(p, block, from_sclass, to_sclass, elems_to_copy) ==
    IF p.panic THEN p
    ELSE IF elems_to_copy > sclass_size(from_sclass)
            \/ elems_to_copy > sclass_size(to_sclass)
    THEN [Panic(p) EXCEPT !.re = Realloc(block, from_sclass, to_sclass,
                                         elems_to_copy, FALSE, None)]
    ELSE LET a == alloc(p, to_sclass)
             new_block == a.ret
             s == mut_slices(a.data, block, new_block)
             c == IF a.panic \/ elems_to_copy = 0 THEN a
                  ELSE IF s.panic THEN Panic(a)
                  ELSE copy_from_slice(a, s.old, s.new, elems_to_copy)
             f == pool_free(c, block, from_sclass)
         IN  [f EXCEPT !.ret = new_block,
                       !.re = Realloc(block, from_sclass, to_sclass,
                                      elems_to_copy, TRUE, new_block)]

\* ----------------------------------------------------------------- list
\* A list operation takes the pool value and the list's index field and
\* returns both: [p |-> pool value, index |-> the list's index field].
MkList(p, idx) == [p |-> p, index |-> idx]

\* EntityList::default
default == 0

\* EntityList::is_empty
is_empty(idx) == idx = 0

\* EntityList::len
len(d, idx) == IF len_of(d, idx) = None THEN 0 ELSE len_of(d, idx)

\* Mutant of slice_of: the slice is taken without the bounds check.
slice_of_unchecked(d, idx) ==
    LET n == len_of(d, idx)
    IN  IF n = None THEN [panic |-> FALSE, first |-> 0, n |-> 0]
        ELSE [panic |-> FALSE, first |-> idx, n |-> n]

\* The slice data[idx..idx + n] of as_slice and as_mut_slice, as the range
\* it covers: [panic, first, n]. Slicing panics when idx + n is beyond
\* the vector.
slice_of(d, idx) ==
    LET n == len_of(d, idx)
    IN  IF n = None THEN [panic |-> FALSE, first |-> 0, n |-> 0]
        ELSE [panic |-> idx + n > Len(d), first |-> idx, n |-> n]

\* EntityList::as_slice (of a list whose slicing does not panic)
as_slice(d, idx) ==
    LET s == slice_of(d, idx)
    IN  [k \in 1..s.n |-> At(d, s.first + k - 1)]

\* EntityList::get: the element, or None
get(d, idx, i) ==
    IF i < Len(as_slice(d, idx)) THEN At(as_slice(d, idx), i) ELSE None

\* Mutant of list_clear: the index is not set back to 0.
list_clear_keeps_index(p, idx) ==
    LET n == len_of(p.data, idx)
    IN  IF p.panic THEN MkList(p, idx)
        ELSE IF n = None
        THEN IF idx # 0 THEN MkList(Panic(p), idx) ELSE MkList(p, idx)
        ELSE MkList(pool_free(p, idx - 1, sclass_for_length(n)), idx)

\* EntityList::clear
list_clear(p, idx) ==
    LET n == len_of(p.data, idx)
    IN  IF p.panic THEN MkList(p, idx)
        ELSE IF n = None
        THEN IF idx # 0 THEN MkList(Panic(p), idx) ELSE MkList(p, 0)
        ELSE LET f == pool_free(p, idx - 1, sclass_for_length(n))
             IN  IF f.panic THEN MkList(f, idx) ELSE MkList(f, 0)

\* Mutant of push: the block is never reallocated.
push_never_grows(p, idx, element) ==
    LET n == len_of(p.data, idx)
    IN  IF p.panic THEN MkList(p, idx)
        ELSE IF n = None
        THEN IF idx # 0 THEN MkList(Panic(p), idx)
             ELSE LET a  == alloc(p, sclass_for_length(1))
                      block == a.ret
                      w  == write(write(a, block, EntityNew(1)), block + 1, element)
                  IN  IF w.panic THEN MkList(w, idx)
                      ELSE MkList(w, AsU32(block + 1))
        ELSE LET new_len == n + 1
                 block == idx - 1
                 w  == write(write(p, block + new_len, element),
                             block, EntityNew(new_len))
             IN  MkList(w, idx)

\* EntityList::push
push(p, idx, element) ==
    LET n == len_of(p.data, idx)
    IN  IF p.panic THEN MkList(p, idx)
        ELSE IF n = None
        THEN IF idx # 0 THEN MkList(Panic(p), idx)
             ELSE LET a  == alloc(p, sclass_for_length(1))
                      block == a.ret
                      w  == write(write(a, block, EntityNew(1)), block + 1, element)
                  IN  IF w.panic THEN MkList(w, idx)
                      ELSE MkList(w, AsU32(block + 1))
        ELSE LET new_len == n + 1
                 sclass  == sclass_for_length(n)
                 r  == IF is_sclass_min_length(new_len)
                       THEN realloc(p, idx - 1, sclass, sclass + 1, n + 1)
                       ELSE [p EXCEPT !.ret = idx - 1]
                 block == r.ret
                 idx1  == IF is_sclass_min_length(new_len) /\ ~r.panic
                          THEN AsU32(block + 1) ELSE idx
                 w  == write(write(r, block + new_len, element),
                             block, EntityNew(new_len))
             IN  MkList(w, idx1)

\* EntityList::extend: push the elements in turn
RECURSIVE extend(_, _, _)
extend(p, idx, elements) ==
    IF elements = << >> \/ p.panic THEN MkList(p, idx)
    ELSE LET r == push(p, idx, Head(elements))
         IN  extend(r.p, r.index, Tail(elements))

\* Mutant of shift_up: the loop runs forwards, for i in 1..tail_len, so
\* each element is read after it was overwritten; j is its next index.
RECURSIVE shift_up_forwards_from(_, _, _, _)
shift_up_forwards_from(d, first, j, i) ==
    IF j > i THEN d
    ELSE shift_up_forwards_from(Put(d, first + j, At(d, first + j - 1)),
                                first, j + 1, i)
shift_up_forwards(d, first, i) == shift_up_forwards_from(d, first, 1, i)

\* for i in (1..tail_len).rev() { tail[i] = tail[i - 1] }, with tail[0]
\* at data[first]; i is the next index of the loop
RECURSIVE shift_up(_, _, _)
shift_up(d, first, i) ==
    IF i < 1 THEN d
    ELSE shift_up(Put(d, first + i, At(d, first + i - 1)), first, i - 1)

\* EntityList::insert
insert(p, idx, index, element) ==
    LET r == push(p, idx, element)
        s == slice_of(r.p.data, r.index)
    IN  IF r.p.panic THEN r
        ELSE IF s.panic THEN MkList(Panic(r.p), r.index)
        ELSE IF index < s.n
        THEN LET tail_len == s.n - index
                 d1 == shift_up(r.p.data, s.first + index, tail_len - 1)
             IN  MkList([r.p EXCEPT !.data = Put(d1, s.first + index, element)],
                        r.index)
        ELSE IF index # s.n THEN MkList(Panic(r.p), r.index)
        ELSE r

\* Mutant of shift_down: the loop stops one element early.
RECURSIVE shift_down_short(_, _, _, _)
shift_down_short(d, first, i, n) ==
    IF i >= n - 2 THEN d
    ELSE shift_down_short(Put(d, first + i, At(d, first + i + 1)), first, i + 1, n)

\* for i in index..len - 1 { seq[i] = seq[i + 1] }, with seq[0] at
\* data[first]; i is the next index of the loop
RECURSIVE shift_down(_, _, _, _)
shift_down(d, first, i, n) ==
    IF i >= n - 1 THEN d
    ELSE shift_down(Put(d, first + i, At(d, first + i + 1)), first, i + 1, n)

\* remove without its assertion on the index
remove_unchecked(p, idx, index) ==
    LET s == slice_of(p.data, idx)
        n == s.n
    IN  IF p.panic THEN MkList(p, idx)
        ELSE IF s.panic THEN MkList(Panic(p), idx)
        ELSE LET p1 == [p EXCEPT !.data = shift_down(p.data, s.first, index, n)]
             IN  IF n = 1 THEN list_clear(p1, idx)
                 ELSE LET sclass == sclass_for_length(n)
                          r == IF is_sclass_min_length(n)
                               THEN realloc(p1, idx - 1, sclass, sclass - 1, n)
                               ELSE [p1 EXCEPT !.ret = idx - 1]
                          block == r.ret
                          idx1 == IF is_sclass_min_length(n) /\ ~r.panic
                                  THEN AsU32(block + 1) ELSE idx
                      IN  MkList(write(r, block, EntityNew(n - 1)), idx1)

\* EntityList::remove
remove(p, idx, index) ==
    LET s == slice_of(p.data, idx)
        n == s.n
    IN  IF p.panic THEN MkList(p, idx)
        ELSE IF s.panic THEN MkList(Panic(p), idx)
        ELSE IF ~(index < n) THEN MkList(Panic(p), idx)
        ELSE LET p1 == [p EXCEPT !.data = shift_down(p.data, s.first, index, n)]
             IN  IF n = 1 THEN list_clear(p1, idx)
                 ELSE LET sclass == sclass_for_length(n)
                          r == IF is_sclass_min_length(n)
                               THEN realloc(p1, idx - 1, sclass, sclass - 1, n)
                               ELSE [p1 EXCEPT !.ret = idx - 1]
                          block == r.ret
                          idx1 == IF is_sclass_min_length(n) /\ ~r.panic
                                  THEN AsU32(block + 1) ELSE idx
                      IN  MkList(write(r, block, EntityNew(n - 1)), idx1)

\* ---------------------------------------------------------------- state
VARIABLES
    data,       \* ListPool::data
    free,       \* ListPool::free
    cls,        \* history: the size class each block was handed out under
    index,      \* index[l]: the index field of EntityList l
    panicked,   \* an operation has panicked: the program has stopped
    last,       \* history: the operation just performed and what it saw
    pushed,     \* history: pushed[l] is what was pushed onto l since it was
                \* empty, or Mixed once l was changed other than by a push
    cap,        \* the caller: cap[l] is the longest it lets list l become
    elems,      \* the caller: elems[l] are the handles it stores in list l
    held,       \* the caller of alloc and free: the blocks it holds
    fstack,     \* history: fstack[c] are the blocks freed under class c and
                \* not handed out since, the last freed first
    stale,      \* history: the lists that had a block when the pool was
                \* cleared and were not operated on since
    step        \* where a push that is followed statement by statement
                \* is, and its local variables

vars == <<data, free, cls, index, panicked, last, pushed, cap, elems, held,
          fstack, stale, step>>

\* step when no push is being followed
Idle == [pc |-> "idle", l |-> 0, x |-> 0, s |-> << >>, n |-> 0, block |-> 0,
         old |-> 0, from |-> 0]

\* The callers explored.
\* "one": list 1 alone, storing the handles Elems in any order.
\* "deep": list 1 alone, storing one handle, growing through several
\*         size classes.
\* "shared": both lists, each storing its own handle Inst::new(l).
Scenarios ==
    { [cap |-> [l \in Lists |-> IF l = 1 THEN MaxLen ELSE 0],
       elems |-> [l \in Lists |-> IF l = 1 THEN Elems ELSE {}]],
      [cap |-> [l \in Lists |-> IF l = 1 THEN DeepLen ELSE 0],
       elems |-> [l \in Lists |-> IF l = 1 THEN {1} ELSE {}]],
      [cap |-> [l \in Lists |-> IF l = 1 THEN MaxLen ELSE ShortLen],
       elems |-> [l \in Lists |-> {l}]] }

\* pushed[l] of a list that was inserted into or removed from
Mixed == <<0>>
\* pushed[l] where the pushes are not followed: the pool is cleared under
\* the lists
Untracked == <<0, 0>>

\* The pool value made of the state variables.
pool == MkPool(data, free, cls)

\* the class the block was handed out under, or None
ClassOf(c, block) ==
    IF \E q \in c : q[1] = block
    THEN (CHOOSE q \in c : q[1] = block)[2]
    ELSE None

\* the class the block of the list with this index was handed out under
ListClass(c, idx) == IF idx = 0 THEN None ELSE ClassOf(c, idx - 1)

\* sequences over S of length lo..hi
SeqsOf(S, lo, hi) == UNION {[1..n -> S] : n \in lo..hi}

\* last.prior of an operation that did not follow a matching insert
NoPrior == [ok |-> FALSE, s |-> << >>, e |-> TRUE]

\* what the history records of an operation on list l that returned r:
\* its name, its arguments, and what the list and the pool were before it
Record(op, l, i, x, xs, r) ==
    [op |-> op, l |-> l, i |-> i, x |-> x, xs |-> xs,
     before |-> IF slice_of(data, index[l]).panic THEN << >>
                ELSE as_slice(data, index[l]),
     idx0 |-> index[l],
     cls0 |-> ListClass(cls, index[l]),
     \* the last realloc the operation called, if any
     re |-> r.p.re,
     \* the operation left the pool's vectors and the list's index as
     \* they were
     same |-> r.p.data = data /\ r.p.free = free /\ r.index = index[l],
     \* the contents and emptiness before the preceding operation, when
     \* that was an insert at the same position i <= len of the same
     \* list; else NoPrior
     prior |-> IF last.op = "insert" /\ last.l = l /\ last.i = i
                  /\ i <= Len(last.before)
               THEN [ok |-> TRUE, s |-> last.before, e |-> is_empty(last.idx0)]
               ELSE NoPrior]

\* the state after an operation op(i, x) or op(xs) on list l that returned r
Apply(op, l, i, x, xs, r, pushedl) ==
    /\ data' = r.p.data
    /\ free' = r.p.free
    /\ cls' = r.p.cls
    /\ index' = [index EXCEPT ![l] = r.index]
    /\ panicked' = r.p.panic
    /\ last' = Record(op, l, i, x, xs, r)
    /\ pushed' = [pushed EXCEPT ![l] = IF @ = Untracked THEN Untracked
                                       ELSE IF r.index = 0 THEN << >>
                                       ELSE pushedl]
    /\ stale' = stale \ {l}
    /\ UNCHANGED <<cap, elems, held, fstack, step>>

Init ==
    /\ data = pool_new.data
    /\ free = pool_new.free
    /\ cls = pool_new.cls
    /\ index = [l \in Lists |-> default]
    /\ panicked = FALSE
    /\ last = [op |-> "new", l |-> 0, i |-> 0, x |-> 0, xs |-> << >>,
               before |-> << >>,
               idx0 |-> 0, cls0 |-> None, re |-> NoRealloc, same |-> TRUE,
               prior |-> NoPrior]
    /\ pushed = [l \in Lists |-> << >>]
    /\ \E sc \in Scenarios : cap = sc.cap /\ elems = sc.elems
    /\ held = {}
    /\ fstack = << >>
    /\ stale = {}
    /\ step = Idle

\* list.push(x, pool)
Push(l, x) ==
    /\ ~panicked
    /\ len(data, index[l]) < cap[l]
    /\ Apply("push", l, 0, x, << >>, push(pool, index[l], x),
             IF pushed[l] = Mixed THEN Mixed ELSE Append(pushed[l], x))

\* list.extend(xs, pool)
Extend(l, xs) ==
    /\ ~panicked
    /\ len(data, index[l]) + Len(xs) <= cap[l]
    /\ Apply("extend", l, 0, 0, xs, extend(pool, index[l], xs),
             IF pushed[l] = Mixed THEN Mixed ELSE pushed[l] \o xs)

\* list.insert(i, x, pool)
Insert(l, i, x) ==
    /\ ~panicked
    /\ len(data, index[l]) < cap[l]
    /\ Apply("insert", l, i, x, << >>, insert(pool, index[l], i, x), Mixed)

\* list.remove(i, pool)
Remove(l, i) ==
    /\ ~panicked
    /\ Apply("remove", l, i, 0, << >>, remove(pool, index[l], i), Mixed)

\* list.clear(pool)
Clear(l) ==
    /\ ~panicked
    /\ Apply("clear", l, 0, 0, << >>, list_clear(pool, index[l]), << >>)

Next ==
    \/ \E l \in Lists : \E x \in elems[l] : Push(l, x)
    \/ \E l \in Lists : \E xs \in SeqsOf(elems[l], 0, MaxExtend) : Extend(l, xs)
    \/ \E l \in Lists : \E i \in 0..(len(data, index[l]) + 2) :
          \E x \in elems[l] : Insert(l, i, x)
    \/ \E l \in Lists : \E i \in 0..len(data, index[l]) : Remove(l, i)
    \/ \E l \in Lists : Clear(l)

Spec == Init /\ [][Next]_vars

\* The blocks on the free list of class c, from its head: the chain of
\* heads and next-links, each the block's start plus one, ended by 0.
\* fuel bounds the walk, so that a cycle ends it.
RECURSIVE Chain(_, _, _)
Chain(d, head, fuel) ==
    IF head = 0 \/ fuel = 0 \/ ~InRange(d, head) THEN << >>
    ELSE <<head - 1>> \o Chain(d, EntityIndex(At(d, head)), fuel - 1)

FreeList(c) == IF InRange(free, c) THEN Chain(data, At(free, c), Len(data)) ELSE << >>

\* the elements of a sequence
Range(s) == {s[k] : k \in 1..Len(s)}

\* ------------------------------------------- the pool cleared under lists
\* The lists used without the discipline: the pool is cleared while lists
\* hold blocks, and the lists are used on afterwards, in a pool that the
\* other lists repopulate; and list 2 may be a list of another pool, where
\* it holds the first, the second or the third block.
ForeignIndex == {1, 5, 9}

StaleInit ==
    /\ data = pool_new.data
    /\ free = pool_new.free
    /\ cls = pool_new.cls
    /\ \E f \in {default} \cup ForeignIndex :
          index = [l \in Lists |-> IF l = 2 THEN f ELSE default]
    /\ panicked = FALSE
    /\ last = [op |-> "new", l |-> 0, i |-> 0, x |-> 0, xs |-> << >>,
               before |-> << >>,
               idx0 |-> 0, cls0 |-> None, re |-> NoRealloc, same |-> TRUE,
               prior |-> NoPrior]
    /\ pushed = [l \in Lists |-> Untracked]
    /\ cap = [l \in Lists |-> IF l = 1 THEN StaleLen ELSE ForeignLen]
    /\ elems = [l \in Lists |-> {BigHandle}]
    /\ held = {}
    /\ fstack = << >>
    /\ stale = {}
    /\ step = Idle

\* pool.clear(), whatever the lists hold
PoolClear ==
    LET p == pool_clear(pool)
    IN  /\ ~panicked
        /\ data' = p.data
        /\ free' = p.free
        /\ cls' = p.cls
        /\ panicked' = p.panic
        /\ stale' = {l \in Lists : index[l] # 0}
        /\ last' = [op |-> "pool_clear", len0 |-> Len(data),
                    freed0 |-> \E c \in 0..(Len(free) - 1) : FreeList(c) # << >>]
        /\ UNCHANGED <<index, pushed, cap, elems, held, fstack, step>>

StaleNext ==
    \/ Len(data) <= MaxData /\ Next
    \/ PoolClear

SpecStale == StaleInit /\ [][StaleNext]_vars

\* ------------------------------------------------ push, statement by statement
\* list.push(x, pool) followed through its statements, on list 1 of a
\* pool that the list alone uses; between two pushes the list may be
\* removed from and cleared. step.s is the list's contents when the push
\* began, step.n its length, step.block the local variable block,
\* step.old the list's block when the push began and step.from its class.
StepInit ==
    /\ data = pool_new.data
    /\ free = pool_new.free
    /\ cls = pool_new.cls
    /\ index = [l \in Lists |-> default]
    /\ panicked = FALSE
    /\ last = [op |-> "new", l |-> 0, i |-> 0, x |-> 0, xs |-> << >>,
               before |-> << >>,
               idx0 |-> 0, cls0 |-> None, re |-> NoRealloc, same |-> TRUE,
               prior |-> NoPrior]
    /\ pushed = [l \in Lists |-> Untracked]
    /\ cap = [l \in Lists |-> IF l = 1 THEN StepLen ELSE 0]
    /\ elems = [l \in Lists |-> IF l = 1 THEN Elems ELSE {}]
    /\ held = {}
    /\ fstack = << >>
    /\ stale = {}
    /\ step = Idle

\* the pool after a statement that left the pool value p
Store(p) ==
    /\ data' = p.data
    /\ free' = p.free
    /\ cls' = p.cls
    /\ panicked' = p.panic

\* the statement at pc has run, leaving the pool value p and block in the
\* local variable block; next is the statement that follows
Goto(p, block, next) ==
    /\ Store(p)
    /\ step' = [step EXCEPT !.pc = IF p.panic THEN @ ELSE next, !.block = block]
    /\ UNCHANGED <<index, last, pushed, cap, elems, held, fstack, stale>>

\* match pool.len_of(self), with the assertion of the None arm and the
\* test is_sclass_min_length(new_len) of the Some arm
PushBegin(l, x) ==
    LET n == len_of(data, index[l])
    IN  /\ ~panicked
        /\ step.pc = "idle"
        /\ len(data, index[l]) < cap[l]
        /\ panicked' = (n = None /\ index[l] # 0)
        /\ step' = IF n = None
                   THEN [Idle EXCEPT !.pc = IF index[l] # 0 THEN "idle"
                                           ELSE "first_alloc",
                                     !.l = l, !.x = x]
                   ELSE [pc |-> IF is_sclass_min_length(n + 1)
                                THEN "realloc_alloc" ELSE "element",
                         l |-> l, x |-> x, s |-> as_slice(data, index[l]), n |-> n,
                         block |-> index[l] - 1, old |-> index[l] - 1,
                         from |-> sclass_for_length(n)]
        /\ UNCHANGED <<data, free, cls, index, last, pushed, cap, elems, held,
                       fstack, stale>>

\* let block = pool.alloc(sclass_for_length(1))
FirstAlloc ==
    LET a == alloc(pool, sclass_for_length(1))
    IN  /\ ~panicked
        /\ step.pc = "first_alloc"
        /\ Goto(a, a.ret, "first_length")

\* pool.data[block] = T::new(1)
FirstLength ==
    /\ ~panicked
    /\ step.pc = "first_length"
    /\ Goto(write(pool, step.block, EntityNew(1)), step.block, "first_element")

\* pool.data[block + 1] = element
FirstElement ==
    /\ ~panicked
    /\ step.pc = "first_element"
    /\ Goto(write(pool, step.block + 1, step.x), step.block, "first_index")

\* self.index = (block + 1) as u32, in the None arm
FirstIndex ==
    /\ ~panicked
    /\ step.pc = "first_index"
    /\ index' = [index EXCEPT ![step.l] = AsU32(step.block + 1)]
    /\ step' = [step EXCEPT !.pc = "done"]
    /\ UNCHANGED <<data, free, cls, panicked, last, pushed, cap, elems, held,
                   fstack, stale>>

\* realloc: the two assertions and let new_block = self.alloc(to_sclass)
ReallocAlloc ==
    LET a == IF step.n + 1 > sclass_size(step.from)
                \/ step.n + 1 > sclass_size(step.from + 1)
             THEN Panic(pool)
             ELSE alloc(pool, step.from + 1)
    IN  /\ ~panicked
        /\ step.pc = "realloc_alloc"
        /\ Goto(a, a.ret, "realloc_copy")

\* realloc: mut_slices and copy_from_slice
ReallocCopy ==
    LET sl == mut_slices(data, step.old, step.block)
        c  == IF sl.panic THEN Panic(pool)
              ELSE copy_from_slice(pool, sl.old, sl.new, step.n + 1)
    IN  /\ ~panicked
        /\ step.pc = "realloc_copy"
        /\ Goto(c, step.block, "realloc_free")

\* realloc: self.free(block, from_sclass), after which realloc returns
ReallocFree ==
    /\ ~panicked
    /\ step.pc = "realloc_free"
    /\ Goto(pool_free(pool, step.old, step.from), step.block, "rebase")

\* Mutant of Rebase: the list's index is left as it is.
Rebase_skipped ==
    /\ ~panicked
    /\ step.pc = "rebase"
    /\ step' = [step EXCEPT !.pc = "element"]
    /\ UNCHANGED <<data, free, cls, index, panicked, last, pushed, cap, elems,
                   held, fstack, stale>>

\* self.index = (block + 1) as u32, after realloc
Rebase ==
    /\ ~panicked
    /\ step.pc = "rebase"
    /\ index' = [index EXCEPT ![step.l] = AsU32(step.block + 1)]
    /\ step' = [step EXCEPT !.pc = "element"]
    /\ UNCHANGED <<data, free, cls, panicked, last, pushed, cap, elems, held,
                   fstack, stale>>

\* pool.data[block + new_len] = element
Element ==
    /\ ~panicked
    /\ step.pc = "element"
    /\ Goto(write(pool, step.block + step.n + 1, step.x), step.block, "length")

\* pool.data[block] = T::new(new_len)
NewLength ==
    /\ ~panicked
    /\ step.pc = "length"
    /\ Goto(write(pool, step.block, EntityNew(step.n + 1)), step.block, "done")

\* push returns
PushReturn ==
    /\ ~panicked
    /\ step.pc = "done"
    /\ step' = Idle
    /\ UNCHANGED <<data, free, cls, index, panicked, last, pushed, cap, elems,
                   held, fstack, stale>>

StepNext ==
    \/ \E l \in Lists : \E x \in elems[l] : PushBegin(l, x)
    \/ FirstAlloc
    \/ FirstLength
    \/ FirstElement
    \/ FirstIndex
    \/ ReallocAlloc
    \/ ReallocCopy
    \/ ReallocFree
    \/ Rebase
    \/ Element
    \/ NewLength
    \/ PushReturn
    \/ step.pc = "idle" /\ \E i \in 0..(len(data, index[1]) - 1) : Remove(1, i)
    \/ step.pc = "idle" /\ Clear(1)

SpecSteps == StepInit /\ [][StepNext]_vars

\* ------------------------------------------------- the block allocator
\* The pool used as tests::block_allocator uses it: blocks are allocated
\* with alloc and given back with free under the class they were
\* allocated with.
Classes == 0..MaxClass

PoolInit ==
    /\ data = pool_new.data
    /\ free = pool_new.free
    /\ cls = pool_new.cls
    /\ index = [l \in Lists |-> default]
    /\ panicked = FALSE
    /\ last = [op |-> "new", c |-> 0, block |-> None, grew |-> FALSE,
               expect |-> None, washeld |-> FALSE]
    /\ pushed = [l \in Lists |-> << >>]
    /\ cap = [l \in Lists |-> 0]
    /\ elems = [l \in Lists |-> {}]
    /\ held = {}
    /\ fstack = [c \in Classes |-> << >>]
    /\ stale = {}
    /\ step = Idle

\* b = pool.alloc(c)
Alloc(c) ==
    LET a == alloc(pool, c)
    IN  /\ ~panicked
        /\ Cardinality(held) < MaxHeld
        /\ FreeList(c) # << >> \/ Cardinality(cls) < MaxBlocks
        /\ data' = a.data
        /\ free' = a.free
        /\ cls' = a.cls
        /\ panicked' = a.panic
        /\ held' = IF a.panic THEN held ELSE held \cup {a.ret}
        /\ fstack' = [fstack EXCEPT ![c] = IF @ = << >> THEN @ ELSE Tail(@)]
        /\ last' = [op |-> "alloc", c |-> c,
                    block |-> IF a.panic THEN None ELSE a.ret,
                    grew |-> Len(a.data) > Len(data),
                    expect |-> IF fstack[c] = << >> THEN None ELSE Head(fstack[c]),
                    washeld |-> a.ret \in held]
        /\ UNCHANGED <<index, pushed, cap, elems, stale, step>>

\* pool.free(b, c), for a block b held since alloc(c) returned it
Free(b) ==
    LET c == ClassOf(cls, b)
        f == pool_free(pool, b, c)
    IN  /\ ~panicked
        /\ b \in held
        /\ data' = f.data
        /\ free' = f.free
        /\ cls' = f.cls
        /\ panicked' = f.panic
        /\ held' = held \ {b}
        /\ fstack' = [fstack EXCEPT ![c] = <<b>> \o @]
        /\ last' = [op |-> "free", c |-> c, block |-> b, grew |-> FALSE,
                    expect |-> None, washeld |-> TRUE]
        /\ UNCHANGED <<index, pushed, cap, elems, stale, step>>

PoolNext ==
    \/ \E c \in Classes : Alloc(c)
    \/ \E b \in held : Free(b)

SpecPool == PoolInit /\ [][PoolNext]_vars

\* ------------------------------------------- the size-class functions
CheckedLens ==
    (0..MaxCheckedLen)
        \cup UNION {{Pow2(k) - 1, Pow2(k), Pow2(k) + 1} : k \in 2..19}
        \cup {Pow2(20) - 1, Pow2(20)}

SizesInit ==
    /\ data = pool_new.data
    /\ free = pool_new.free
    /\ cls = pool_new.cls
    /\ index = [l \in Lists |-> default]
    /\ panicked = FALSE
    /\ \E n \in CheckedLens : last = [op |-> "len", len |-> n, sclass |-> None]
    /\ pushed = [l \in Lists |-> << >>]
    /\ cap = [l \in Lists |-> 0]
    /\ elems = [l \in Lists |-> {}]
    /\ held = {}
    /\ fstack = << >>
    /\ stale = {}
    /\ step = Idle

\* sclass_for_length(len)
SizeClassOf ==
    /\ last.op = "len"
    /\ last' = [op |-> "sclass", len |-> last.len,
                sclass |-> sclass_for_length(last.len)]
    /\ UNCHANGED <<data, free, cls, index, panicked, pushed, cap, elems, held,
                   fstack, stale, step>>

\* is_sclass_min_length(len), of a length whose class was computed
MinLengthOf ==
    /\ last.op = "sclass"
    /\ last' = [op |-> "min", len |-> last.len, sclass |-> last.sclass,
                min |-> is_sclass_min_length(last.len)]
    /\ UNCHANGED <<data, free, cls, index, panicked, pushed, cap, elems, held,
                   fstack, stale, step>>

SizesNext == SizeClassOf \/ MinLengthOf

SpecSizes == SizesInit /\ [][SizesNext]_vars

\* ------------------------------------------------------ list properties
\* the contents and the length the code reports for list l
Slice(l) == as_slice(data, index[l])
Length(l) == len(data, index[l])

\* s without its element at 0-based position i
Without(s, i) == SubSeq(s, 1, i) \o SubSeq(s, i + 2, Len(s))
\* s with x put in at 0-based position i
With(s, i, x) == SubSeq(s, 1, i) \o <<x>> \o SubSeq(s, i + 1, Len(s))

\* the last operation was op on a list, within the list's contract
Did(op) == last.op = op

\* C1: a list built from the empty list by pushes alone reads back, after
\* every push, as exactly the sequence pushed, and its length is the
\* number of pushes; this includes the pushes that move the list to a
\* larger size class.
C1_PushRoundTrip ==
    /\ Did("push") => ~panicked
    /\ \A l \in Lists :
          pushed[l] \notin {Mixed, Untracked} =>
              /\ Slice(l) = pushed[l]
              /\ Length(l) = Len(pushed[l])
              /\ is_empty(index[l]) = (pushed[l] = << >>)

\* C1 witness: the fourth push of 1, 2, 2, 1 has moved the list from
\* class 0 to class 1.
C1_Witness ==
    /\ Did("push")
    /\ pushed[last.l] = <<1, 2, 2, 1>>
    /\ last.cls0 = 0
    /\ ListClass(cls, index[last.l]) = 1

\* C2: insert(i, x) with i <= len leaves S[0..i] ++ [x] ++ S[i..len], of
\* length len + 1, and from every reachable state insert(len, x) gives
\* the same pool and list as push(x).
C2_Insert ==
    /\ (Did("insert") /\ last.i <= Len(last.before)) =>
            /\ ~panicked
            /\ Slice(last.l) = With(last.before, last.i, last.x)
            /\ Length(last.l) = Len(last.before) + 1
    /\ ~panicked =>
        \A l \in Lists : \A x \in elems[l] :
            insert(pool, index[l], Length(l), x) = push(pool, index[l], x)

\* C2 witness: an insert in the middle of a list of length 3, whose push
\* reallocated the block.
C2_Witness ==
    /\ Did("insert")
    /\ last.i = 1
    /\ last.before = <<1, 2, 2>>
    /\ last.x = 1
    /\ index[last.l] # last.idx0

\* C3: remove(i) with i < len leaves S[0..i] ++ S[i+1..len], of length
\* len - 1; removing the only element leaves the empty list and puts the
\* block at the head of the free list of class 0.
C3_Remove ==
    (Did("remove") /\ last.i < Len(last.before)) =>
        /\ ~panicked
        /\ Slice(last.l) = Without(last.before, last.i)
        /\ Length(last.l) = Len(last.before) - 1
        /\ Len(last.before) = 1 =>
              /\ index[last.l] = 0
              /\ is_empty(index[last.l])
              /\ InRange(free, 0)
              /\ At(free, 0) - 1 = last.idx0 - 1
              /\ At(data, last.idx0 - 1) = 0

\* C3 witness: a remove in the middle of a list of length 4, which moved
\* the list to the smaller class.
C3_Witness ==
    /\ Did("remove")
    /\ last.i = 1
    /\ last.before = <<1, 2, 1, 2>>
    /\ last.cls0 = 1
    /\ ListClass(cls, index[last.l]) = 0

\* C4: insert(i, x) with i <= len followed by remove(i) restores the
\* contents and the emptiness the list had before the insert.
C4_InsertRemove ==
    (Did("remove") /\ last.prior.ok) =>
        /\ ~panicked
        /\ Slice(last.l) = last.prior.s
        /\ is_empty(index[last.l]) = last.prior.e

\* C4 witness: the insert grew a list of length 3 into class 1 and the
\* remove shrank it back.
C4_Witness ==
    /\ Did("remove")
    /\ last.prior.ok
    /\ last.prior.s = <<2, 1, 2>>
    /\ last.cls0 = 1
    /\ ListClass(cls, index[last.l]) = 0

\* C5: clear on a list of length len >= 1 leaves index 0, is_empty, length
\* 0 and no contents, with the list's block at the head of the free list
\* of class sclass_for_length(len); clear on an empty list changes neither
\* the list nor the pool.
C5_Clear ==
    Did("clear") =>
        /\ ~panicked
        /\ index[last.l] = 0
        /\ is_empty(index[last.l])
        /\ Length(last.l) = 0
        /\ Slice(last.l) = << >>
        /\ Len(last.before) >= 1 =>
              /\ InRange(free, sclass_for_length(Len(last.before)))
              /\ At(free, sclass_for_length(Len(last.before))) - 1 = last.idx0 - 1
              /\ ~last.same
        /\ last.idx0 = 0 => last.same

\* C5 witness: a list of length 4 was cleared and its block heads the free
\* list of class 1.
C5_Witness ==
    /\ Did("clear")
    /\ Len(last.before) = 4
    /\ At(free, 1) = last.idx0

\* C5 second case reached: clear on an empty list of a populated pool
C5_EmptyReached ==
    Did("clear") /\ last.idx0 = 0 /\ Len(data) > 0

\* C6: every list of length len > 0 owns a block that was handed out
\* under the class sclass_for_length(len).
C6_ClassOfLength ==
    \A l \in Lists :
        Length(l) > 0 => ListClass(cls, index[l]) = sclass_for_length(Length(l))

\* C6 witness: both lists own a block, list 1 one of class 1 that it
\* shrank into after growing further.
C6_Witness ==
    /\ Did("remove")
    /\ Length(1) = 4
    /\ ListClass(cls, index[1]) = 1
    /\ Length(2) = 1
    /\ ListClass(cls, index[2]) = 0

\* C7 as stated: a remove that takes the length from 4 * 2^c + 1 down to
\* 4 * 2^c makes the class of the list's block c.
C7_AsStated ==
    Did("remove") =>
        \A c \in 0..3 :
            (Len(last.before) = sclass_size(c) + 1 /\ Length(last.l) = sclass_size(c))
                => ListClass(cls, index[last.l]) = c

\* C7 amended: a remove that takes the length from 4 * 2^c down to
\* 4 * 2^c - 1 moves the list from a block of class c + 1 to one of class
\* c; a remove from 4 * 2^c + 1 down to 4 * 2^c leaves the class at c + 1.
C7_Shrink ==
    Did("remove") =>
        \A c \in 0..3 :
            /\ (Len(last.before) = sclass_size(c) /\ last.i < Len(last.before)) =>
                  /\ Length(last.l) = sclass_size(c) - 1
                  /\ last.cls0 = c + 1
                  /\ ListClass(cls, index[last.l]) = c
            /\ (Len(last.before) = sclass_size(c) + 1 /\ last.i < Len(last.before)) =>
                  /\ Length(last.l) = sclass_size(c)
                  /\ last.cls0 = c + 1
                  /\ ListClass(cls, index[last.l]) = c + 1

\* C7 witness: a remove took a list from length 8 to 7 and from class 2
\* to class 1.
C7_Witness ==
    /\ Did("remove")
    /\ Len(last.before) = 8
    /\ Length(last.l) = 7
    /\ last.cls0 = 2
    /\ ListClass(cls, index[last.l]) = 1

\* C10 as stated: no operation on a default list panics, except insert
\* with i > 0.
C10_AsStated ==
    (/\ last.op \in {"clear", "push", "extend", "insert", "remove"}
     /\ last.idx0 = default
     /\ ~(last.op = "insert" /\ last.i > 0)) => ~panicked

\* C10 amended: on a default list, whatever the pool holds, the reads
\* return empty or absent and clear, push, extend and insert(0, x)
\* complete; remove panics for every index, leaving list and pool as they
\* were.
C10_NullList ==
    /\ \A l \in Lists :
          index[l] = default =>
              /\ is_empty(index[l])
              /\ Length(l) = 0
              /\ Slice(l) = << >>
              /\ get(data, index[l], 0) = None
              /\ get(data, index[l], 100) = None
              /\ ~slice_of(data, index[l]).panic
              /\ slice_of(data, index[l]).n = 0
    /\ (last.op \in {"clear", "push", "extend"} /\ last.idx0 = default) => ~panicked
    /\ (Did("insert") /\ last.idx0 = default /\ last.i = 0) => ~panicked
    /\ (Did("remove") /\ last.idx0 = default) => (panicked /\ last.same)

\* C10 witness: a remove on a default list of a populated pool has
\* panicked.
C10_Witness ==
    /\ Did("remove")
    /\ last.l = 2
    /\ last.idx0 = default
    /\ Length(1) = 4
    /\ panicked

\* C10: a push onto a default list of a populated pool has completed
C10_PushReached ==
    /\ Did("push")
    /\ last.l = 2
    /\ last.idx0 = default
    /\ Length(1) = 4
    /\ ~panicked

\* C11: an insert(i, x) with i greater than the length the list had
\* before the call panics; it never completes.
C11_AsStated ==
    (Did("insert") /\ last.i > Len(last.before)) => panicked

\* C21: remove(i) with i at or past the length of the list, an empty list
\* included, panics on its assertion with the pool's data, the free-list
\* heads and the list's index exactly as they were before the call. The
\* first conjunct is about the call the run has made, the second about the
\* calls further past the end, made from every state the run reaches.
C21_RemoveOutOfRange ==
    /\ (Did("remove") /\ last.i >= Len(last.before)) =>
           /\ panicked
           /\ last.same
           /\ index[last.l] = last.idx0
           /\ Slice(last.l) = last.before
    /\ ~panicked =>
           \A l \in Lists : \A i \in Length(l)..(Length(l) + MaxOverrun) :
               LET r == remove(pool, index[l], i)
               IN  /\ r.p.panic
                   /\ r.p.data = data
                   /\ r.p.free = free
                   /\ r.index = index[l]

\* C21: a remove one past the end of a list of four elements has panicked
\* and left everything in place
C21_Witness ==
    /\ Did("remove")
    /\ last.l = 1
    /\ Len(last.before) = 4
    /\ last.i = 4
    /\ panicked
    /\ last.same
    /\ Length(1) = 4

\* ------------------------------------------------------ pool invariants
\* the slots of a block <<start, class>> handed out by alloc
SlotsOf(q) == q[1]..(q[1] + sclass_size(q[2]) - 1)

\* how often x occurs in the sequence s
Count(s, x) == Cardinality({k \in 1..Len(s) : s[k] = x})

\* the lists whose index points at the block
Owners(block) == {l \in Lists : index[l] = block + 1}

\* how often the block is on the free lists, over all classes
TimesFree(block) ==
    LET n[c \in 0..Len(free)] ==
            IF c = 0 THEN 0 ELSE n[c - 1] + Count(FreeList(c - 1), block)
    IN  n[Len(free)]

\* the walk along the free list from head ends at 0 within fuel steps,
\* never leaving data
RECURSIVE ChainEnds(_, _, _)
ChainEnds(d, head, fuel) ==
    IF head = 0 THEN TRUE
    ELSE IF fuel = 0 \/ ~InRange(d, head) THEN FALSE
    ELSE ChainEnds(d, EntityIndex(At(d, head)), fuel - 1)

\* C14: with the lists used with their own pool and the pool not cleared
\* under them, the blocks handed out do not overlap and tile
\* data[0..len(data)), and each block is either the block of exactly one
\* list, which is not empty, or exactly once on the free list of its
\* class and on no other; never both, never neither.
C14_BlocksTile ==
    /\ \A q1, q2 \in cls : q1 # q2 => SlotsOf(q1) \cap SlotsOf(q2) = {}
    /\ UNION {SlotsOf(q) : q \in cls} = 0..(Len(data) - 1)
    /\ \A l \in Lists : index[l] # 0 => ListClass(cls, index[l]) # None
    /\ \A q \in cls :
          /\ Cardinality(Owners(q[1])) + TimesFree(q[1]) = 1
          /\ \A l \in Owners(q[1]) : Length(l) > 0
          /\ Owners(q[1]) = {} => Count(FreeList(q[2]), q[1]) = 1

\* C14 witness: three blocks; list 1 has the one of class 1 and the two of
\* class 0 are on the free list of class 0.
C14_Witness ==
    /\ Cardinality(cls) = 3
    /\ ListClass(cls, index[1]) = 1
    /\ index[2] = 0
    /\ Len(FreeList(0)) = 2

\* C15: in every state the list operations reach, the chain from free[c]
\* along the links at offset 1 (each a block start plus one) ends at 0
\* without visiting a block twice, and every block on it lies within
\* data, was handed out under class c and has 0 in its first slot.
C15_FreeChains ==
    \A c \in 0..(Len(free) - 1) :
        /\ ChainEnds(data, At(free, c), Len(data))
        /\ Cardinality(Range(FreeList(c))) = Len(FreeList(c))
        /\ \A b \in Range(FreeList(c)) :
              /\ b >= 0
              /\ b + sclass_size(c) <= Len(data)
              /\ ClassOf(cls, b) = c
              /\ At(data, b) = 0

\* C15 witness: two blocks on the free list of class 0, the head linked to
\* the other, while list 1 holds a block of class 1.
C15_Witness ==
    /\ Len(FreeList(0)) = 2
    /\ At(free, 0) = FreeList(0)[1] + 1
    /\ At(data, FreeList(0)[1] + 1) = FreeList(0)[2] + 1
    /\ At(data, FreeList(0)[2] + 1) = 0
    /\ ListClass(cls, index[1]) = 1

\* C15: the free lists of three classes hold a block each
C15_DeepReached ==
    /\ Len(free) = 3
    /\ \A c \in 0..2 : Len(FreeList(c)) = 1
    /\ ListClass(cls, index[1]) = 3

\* C16: between list operations every list has index 0 exactly when it has
\* no elements and no block, and a list with index > 0 has in
\* data[index - 1] a length between 1 and the size of its block's class
\* less one; so is_empty agrees with len = 0.
C16_IndexAndLength ==
    \A l \in Lists :
        /\ index[l] = 0 <=>
              (Slice(l) = << >> /\ ~(\E q \in cls : l \in Owners(q[1])))
        /\ index[l] > 0 =>
              /\ InRange(data, index[l] - 1)
              /\ ListClass(cls, index[l]) # None
              /\ EntityIndex(At(data, index[l] - 1)) >= 1
              /\ EntityIndex(At(data, index[l] - 1))
                    <= sclass_size(ListClass(cls, index[l])) - 1
              /\ Length(l) = EntityIndex(At(data, index[l] - 1))
        /\ is_empty(index[l]) <=> Length(l) = 0

\* C16 witness: list 1 fills its block of class 1, with length 7.
C16_Witness ==
    /\ Length(1) = 7
    /\ At(data, index[1] - 1) = 7
    /\ ListClass(cls, index[1]) = 1

\* C16: list 2 is empty again after having had an element, beside list 1
C16_EmptiedReached ==
    /\ index[2] = 0
    /\ Len(FreeList(0)) = 2
    /\ Length(1) = 4

\* C17: every realloc called by push (on its own or within extend and
\* insert) goes from class c to c + 1 and copies len + 1 slots, every
\* realloc called by remove goes from c to c - 1 and copies len slots;
\* the count is at most the size of either class, so both assertions
\* hold and the call completes; the new block is another block than the
\* old one and shares no slot with it, and the old block is the head of
\* the free list of the class it is freed under.
C17_Realloc ==
    (last.op \in {"push", "extend", "insert", "remove"} /\ last.re.done) =>
        LET r == last.re
        IN  /\ r.n <= sclass_size(r.from)
            /\ r.n <= sclass_size(r.to)
            /\ r.asserted
            /\ Did("push")   => (r.to = r.from + 1 /\ r.n = Len(last.before) + 1)
            /\ Did("insert") => (r.to = r.from + 1 /\ r.n = Len(last.before) + 1)
            /\ Did("extend") => r.to = r.from + 1
            /\ Did("remove") => (r.to = r.from - 1 /\ r.n = Len(last.before))
            /\ r.from = last.cls0
            /\ r.block = last.idx0 - 1
            /\ r.new # r.block
            /\ SlotsOf(<<r.block, r.from>>) \cap SlotsOf(<<r.new, r.to>>) = {}
            /\ index[last.l] = r.new + 1
            /\ InRange(free, r.from)
            /\ At(free, r.from) = r.block + 1
            /\ FreeList(r.from)[1] = r.block

\* C17 witness: a remove has called realloc from class 2 to class 1,
\* copying 8 slots.
C17_Witness ==
    /\ Did("remove")
    /\ last.re.done
    /\ last.re.from = 2
    /\ last.re.to = 1
    /\ last.re.n = 8
    /\ ~panicked

\* C17: a push has called realloc from class 1 to class 2, copying 8 slots
C17_PushReached ==
    /\ Did("push")
    /\ last.re.done
    /\ last.re.from = 1
    /\ last.re.to = 2
    /\ last.re.n = 8
    /\ ~panicked

\* --------------------------------------- push, statement by statement
\* the elements of the list a push is in: those it had and the one pushed
Pushing == step.s \o <<step.x>>

\* The block has a length slot between 1 and the size of its class less
\* one, and each position below the length holds the element of e at
\* that position.
BlockHolds(block, e) ==
    /\ InRange(data, block)
    /\ ClassOf(cls, block) # None
    /\ EntityIndex(At(data, block)) >= 1
    /\ EntityIndex(At(data, block)) <= sclass_size(ClassOf(cls, block)) - 1
    /\ EntityIndex(At(data, block)) <= Len(e)
    /\ \A k \in 1..EntityIndex(At(data, block)) : At(data, block + k) = e[k]

\* The order of the statements of a push that found the list not empty:
\* the element is written before the length, and where push reallocates
\* the old block is freed and the index rebased before either.
StepOrder ==
    /\ step.pc = "element" =>
          /\ At(data, step.block) = EntityNew(step.n)
          /\ index[step.l] = step.block + 1
    /\ step.pc = "length" =>
          /\ At(data, step.block + step.n + 1) = step.x
          /\ At(data, step.block) = EntityNew(step.n)
          /\ index[step.l] = step.block + 1
    /\ (step.pc \in {"element", "length"} /\ step.block # step.old) =>
          /\ FreeList(step.from)[1] = step.old
          /\ At(data, step.old) = 0
    /\ step.pc = "done" =>
          /\ as_slice(data, index[step.l]) = Pushing
          /\ index[step.l] = step.block + 1

\* C18 as stated: with push followed statement by statement, the
\* statements run in the order told, and after every statement of a push
\* that found the list not empty the list's block has a length between 1
\* and the size of its class less one and every position below the
\* length holds an element of the list.
C18_AsStated ==
    /\ StepOrder
    /\ (step.pc # "idle" /\ index[step.l] # 0) =>
            BlockHolds(index[step.l] - 1, Pushing)

\* C18 amended: the same, except after realloc has freed the old block
\* and before the index is rebased: there the list's index still points
\* at the old block, which is the head of the free list of its class
\* with 0 in its length slot and the link in the next slot, while the
\* new block holds the length and the elements the list had.
C18_Steps ==
    /\ StepOrder
    /\ (step.pc \notin {"idle", "rebase"} /\ index[step.l] # 0) =>
            BlockHolds(index[step.l] - 1, Pushing)
    /\ step.pc = "rebase" =>
          /\ index[step.l] = step.old + 1
          /\ At(data, step.old) = 0
          /\ FreeList(step.from)[1] = step.old
          /\ At(free, step.from) = step.old + 1
          /\ step.block # step.old
          /\ At(data, step.block) = EntityNew(step.n)
          /\ BlockHolds(step.block, step.s)
    /\ ~panicked

\* C18 witness: a push onto the list 1, 2, 2 has freed the old block and
\* not yet rebased the index.
C18_Witness ==
    /\ step.pc = "rebase"
    /\ step.s = <<1, 2, 2>>
    /\ step.x = 1
    /\ index[1] = step.old + 1
    /\ At(data, step.block) = 3

\* C18: a push that does not reallocate has written the element and not
\* yet the length, over a slot that held another handle
C18_ElementReached ==
    /\ step.pc = "length"
    /\ step.block = step.old
    /\ step.s = <<1, 2>>
    /\ step.x = 1
    /\ At(data, step.block) = 2
    /\ At(data, step.block + 3) = 1

C12_GarbageReached ==
    \E l \in stale : Length(l) > 0

\* C13: right after ListPool::clear, whatever the pool held, data and the
\* free-list heads are empty as in ListPool::new(), so that alloc of any
\* class, and any pushes onto a default list, return what they return on
\* a new pool: the first block is block 0, made by growing data, and no
\* block is taken from a free list.
C13_ClearIsNew ==
    Did("pool_clear") =>
        /\ ~panicked
        /\ data = pool_new.data
        /\ free = pool_new.free
        /\ \A c \in 0..3 :
              /\ FreeList(c) = << >>
              /\ alloc(pool, c) = alloc(pool_new, c)
              /\ alloc(pool, c).ret = 0
              /\ Len(alloc(pool, c).data) = sclass_size(c)
        /\ \A l \in Lists :
              index[l] = default =>
                  \A xs \in SeqsOf(elems[l], 1, MaxExtend) :
                      /\ extend(pool, index[l], xs) = extend(pool_new, default, xs)
                      /\ ~extend(pool, index[l], xs).p.panic
                      /\ extend(pool, index[l], xs).index = 1

\* C13 witness: the pool was cleared when it held two blocks and one of
\* them was on a free list; list 1 is a default list.
C13_Witness ==
    /\ Did("pool_clear")
    /\ last.len0 = 8
    /\ last.freed0
    /\ index[1] = default
    /\ index[2] # default

\* C20 as stated: on a list used after its pool was cleared and
\* repopulated, or with another pool than its own, len, as_slice and get
\* return, and what they return is stored in data.
C20_AsStated ==
    \A l \in Lists :
        /\ ~slice_of(data, index[l]).panic
        /\ index[l] + Length(l) <= Len(data) \/ Length(l) = 0

\* C20 amended: on such a list len returns 0 or the value stored in
\* data[index - 1]; as_slice and get either panic on the bounds check of
\* the slice, which they do exactly when index + len is beyond the end of
\* data, or return handles stored in data[index..index + len); and every
\* operation either panics or completes, leaving the index of a list it
\* changed within data.
C20_Bounded ==
    /\ \A l \in Lists :
          LET s == slice_of(data, index[l])
          IN  /\ Length(l) # 0 =>
                    /\ InRange(data, index[l] - 1)
                    /\ Length(l) = EntityIndex(At(data, index[l] - 1))
              /\ s.panic <=> (Length(l) # 0 /\ index[l] + Length(l) > Len(data))
              /\ ~s.panic =>
                    /\ s.n = Length(l)
                    /\ s.n > 0 => (s.first = index[l] /\ s.first + s.n <= Len(data))
                    /\ Len(Slice(l)) = s.n
                    /\ \A k \in 1..s.n : Slice(l)[k] = At(data, index[l] + k - 1)
                    /\ \A i \in 0..(s.n + 1) :
                          get(data, index[l], i)
                              = IF i < s.n THEN At(data, index[l] + i) ELSE None
    /\ (last.op \in {"clear", "push", "extend", "insert", "remove"}
            /\ ~panicked /\ ~last.same) =>
          index[last.l] <= Len(data)

\* C20 witness: list 2 was given its block by another pool, list 1 has
\* filled this pool with handles, and slicing list 2 panics.
C20_Witness ==
    /\ index[2] = 9
    /\ Len(data) = 12
    /\ Length(1) = 4
    /\ Length(2) = BigHandle
    /\ slice_of(data, index[2]).panic

\* C20: a list that had a block when the pool was cleared reads the
\* elements another list has stored since
C20_AliasReached ==
    /\ 2 \in stale
    /\ index[1] = index[2]
    /\ Slice(2) = <<BigHandle>>
    /\ Did("push")
    /\ last.l = 1

\* ------------------------------------------------- allocator properties
\* C8: alloc(c) returns the block last freed under c and not handed out
\* since, without growing data, whatever was allocated and freed under
\* other classes in between; the free list of each class is exactly the
\* blocks freed under it and not handed out since, each once, the last
\* freed first, so k frees are answered by the next k allocs; and alloc
\* never returns a block that is held.
C8_FreeListReuse ==
    /\ Did("alloc") =>
          /\ ~panicked
          /\ ~last.washeld
          /\ last.expect # None => (last.block = last.expect /\ ~last.grew)
          /\ last.expect = None => last.grew
    /\ \A c \in Classes :
          /\ FreeList(c) = fstack[c]
          /\ Cardinality(Range(fstack[c])) = Len(fstack[c])
          /\ Range(fstack[c]) \cap held = {}

\* C8 witness: two blocks of class 0 were freed, a block of class 1 was
\* allocated and freed in between, and the second alloc(0) has returned
\* the block freed first.
C8_Witness ==
    /\ Did("alloc")
    /\ last.c = 0
    /\ last.block = last.expect
    /\ fstack[0] = << >>
    /\ Len(fstack[1]) = 1
    /\ Cardinality(held) = 2
    /\ \A b \in held : ClassOf(cls, b) = 0

\* -------------------------------------------------- size-class properties
\* C9: the class of a length is the smallest class whose size holds the
\* list and its length slot.
C9_SmallestClass ==
    last.op = "sclass" =>
        /\ last.sclass >= 0
        /\ sclass_size(last.sclass) >= last.len + 1
        /\ last.sclass > 0 => sclass_size(last.sclass - 1) < last.len + 1

\* C9 witness: the class of length 2^20, five classes above that of 2^15.
C9_Witness ==
    /\ last.op = "sclass"
    /\ last.len = 1048576
    /\ last.sclass = 19

\* the lengths below len that are compared with it: the checked lengths
\* and the length just below
LowerLens(n) == {m \in CheckedLens \cup {n - 1} : m >= 0 /\ m < n}

\* len is the smallest length that sclass_for_length maps to its class
MinOfClass(n) ==
    \A m \in LowerLens(n) : sclass_for_length(m) # sclass_for_length(n)

\* n is 2^k for some k
IsPow2(n) == \E k \in 0..20 : n = Pow2(k)

C19_SmallReached ==
    /\ last.op = "min"
    /\ last.len = 2
    /\ ~last.min
    /\ ~MinOfClass(last.len)

\* ------------------------------------------- two lists sharing one pool
\* Two callers each keep a list of their own handle in the same pool.
\* List 1 grows to SharedLen; list 2 grows to the first length that needs
\* a block of class 1. Either list can free a block of either class that
\* the other then takes. The callers stay within their lists: they insert
\* at 0..len and remove at 0..len - 1.
SharedInit ==
    /\ data = pool_new.data
    /\ free = pool_new.free
    /\ cls = pool_new.cls
    /\ index = [l \in Lists |-> default]
    /\ panicked = FALSE
    /\ last = [op |-> "new", l |-> 0, i |-> 0, x |-> 0, xs |-> << >>,
               before |-> << >>,
               idx0 |-> 0, cls0 |-> None, re |-> NoRealloc, same |-> TRUE,
               prior |-> NoPrior]
    /\ pushed = [l \in Lists |-> Untracked]
    /\ cap = [l \in Lists |-> IF l = 1 THEN SharedLen ELSE sclass_size(0)]
    /\ elems = [l \in Lists |-> {l}]
    /\ held = {}
    /\ fstack = << >>
    /\ stale = {}
    /\ step = Idle

\* the state after an operation op on list l that returned r; of the
\* history, only the operation's name and list are kept
ApplyShared(op, l, r) ==
    /\ data' = r.p.data
    /\ free' = r.p.free
    /\ cls' = r.p.cls
    /\ index' = [index EXCEPT ![l] = r.index]
    /\ panicked' = r.p.panic
    /\ last' = [last EXCEPT !.op = op, !.l = l]
    /\ UNCHANGED <<pushed, cap, elems, held, fstack, stale, step>>

\* list.push(x, pool)
SharedPush(l, x) ==
    /\ ~panicked
    /\ len(data, index[l]) < cap[l]
    /\ ApplyShared("push", l, push(pool, index[l], x))

\* list.extend(xs, pool)
SharedExtend(l, xs) ==
    /\ ~panicked
    /\ len(data, index[l]) + Len(xs) <= cap[l]
    /\ ApplyShared("extend", l, extend(pool, index[l], xs))

\* list.insert(i, x, pool)
SharedInsert(l, i, x) ==
    /\ ~panicked
    /\ len(data, index[l]) < cap[l]
    /\ ApplyShared("insert", l, insert(pool, index[l], i, x))

\* list.remove(i, pool)
SharedRemove(l, i) ==
    /\ ~panicked
    /\ ApplyShared("remove", l, remove(pool, index[l], i))

\* list.clear(pool)
SharedClear(l) ==
    /\ ~panicked
    /\ ApplyShared("clear", l, list_clear(pool, index[l]))

SharedNext ==
    \/ \E l \in Lists : \E x \in elems[l] : SharedPush(l, x)
    \/ \E l \in Lists : \E xs \in SeqsOf(elems[l], MaxExtend, MaxExtend) : SharedExtend(l, xs)
    \/ \E l \in Lists : \E i \in 0..len(data, index[l]) :
          \E x \in elems[l] : SharedInsert(l, i, x)
    \/ \E l \in Lists : \E i \in 0..(len(data, index[l]) - 1) : SharedRemove(l, i)
    \/ \E l \in Lists : SharedClear(l)

SpecShared == SharedInit /\ [][SharedNext]_vars

\* ------------------------------------------------- shared-pool properties
\* C22: an operation on one list of a shared pool leaves the length and
\* the contents of every other list as they were, whichever block the
\* operation allocates, frees or takes from a free list.
C22_Frame ==
    [][\A l \in Lists :
          l # last'.l =>
              /\ len(data', index'[l]) = len(data, index[l])
              /\ as_slice(data', index'[l]) = as_slice(data, index[l])]_vars

\* C22: list 1 grew out of its first block into a block of the next
\* class, and a push on the empty list 2 then took the first block from
\* the free list; list 1 still reads as it did.
C22_Witness ==
    /\ Did("push")
    /\ last.l = 2
    /\ index[2] = 1
    /\ index[1] = 5
    /\ ListClass(cls, index[1]) = 1
    /\ Slice(1) = <<1, 1, 1, 1>>
    /\ Slice(2) = <<2>>
    /\ ~panicked

\* C22: list 2 took the larger block that list 1 shrank out of
C22_ShrunkReached ==
    /\ Did("push")
    /\ last.l = 2
    /\ index[2] = 5
    /\ Length(2) = 4
    /\ Length(1) = 3
    /\ index[1] = 1
    /\ ~panicked

\* C22: list 2 took the block that list 1 cleared
C22_ClearedReached ==
    /\ Did("push")
    /\ last.l = 2
    /\ index[2] = 1
    /\ index[1] = default
    /\ Len(data) = 4
    /\ ~panicked

====
